---- MODULE Spec2Model ----
(***************************************************************************)
(* Model of premierLeagueGame.py: the scoring function, the round lock,    *)
(* the leaderboard aggregation and the prediction submission flow of the   *)
(* Streamlit score-prediction game.                                        *)
(***************************************************************************)
EXTENDS Integers, Sequences, FiniteSets, TLC

VARIABLES
    fixtures_df,   \* st.session_state.fixtures_df: row index -> fixture row
    file,          \* contents of PREDICTIONS_FILE (JSON object, string keys)
    sessions,      \* per browser session: st.session_state and the page drawn
    now,           \* pd.Timestamp.now()
    nsub,          \* number of Submit clicks handled so far
    last,          \* what the latest run did and displayed, if a Submit click
    acked,         \* (player, round) pairs acknowledged with st.success
    args,          \* arguments of the pure call under test
    out            \* what the calls under test have returned

vars == <<fixtures_df, file, sessions, now, nsub, last, acked, args, out>>

(***************************************************************************)
(* Bounds of the model.                                                    *)
(***************************************************************************)
MaxGoals == 1      \* scores range over 0..MaxGoals (the form allows 0..10)
MaxTime == 2       \* the clock runs over 0..MaxTime
MaxSubmits == 2    \* Submit clicks in one behaviour

Players == {"Shezza", "Stiggsy"}
Sessions == {"s1", "s2"}
Rounds == {1, 2}

(***************************************************************************)
(* Values.  A cell of the fixture sheet or a JSON leaf is an integer, a    *)
(* missing value (NaN / None), a non-numeric string or an infinite float   *)
(* (json.load reads Infinity as float('inf')).                             *)
(***************************************************************************)
IntV(n) == [t |-> "int", v |-> n]
NaN == [t |-> "nan", v |-> 0]
StrV == [t |-> "str", v |-> 0]
InfV == [t |-> "inf", v |-> 0]
Ts(n) == [t |-> "ts", v |-> n]
NaT == [t |-> "nat", v |-> 0]

notna(x) == x.t \notin {"nan", "nat"}

\* int(x) succeeds exactly on integer values; on NaN and on a non-numeric
\* string it raises ValueError, on None TypeError, on an infinite float
\* OverflowError.
IntCoercible(x) == x.t = "int"

\* The exception int(x) raises is one of except (ValueError, TypeError).
IntErrorCaught(x) == x.t # "inf"

Result(points, exact, correct_res) ==
    [raised |-> FALSE,
     points |-> points, exact |-> exact, correct_res |-> correct_res]

Raised(error) == [raised |-> TRUE, error |-> error]

calculate_points_swapped(pred_home, pred_away, actual_home, actual_away) ==
    IF ~(IntCoercible(pred_home) /\ IntCoercible(pred_away)
         /\ IntCoercible(actual_home) /\ IntCoercible(actual_away))
    THEN Result(0, FALSE, FALSE)
    ELSE LET ph == pred_home.v
             pa == pred_away.v
             ah == actual_home.v
             aa == actual_away.v
             pred_result == IF ph = pa THEN "draw"
                            ELSE IF ph > pa THEN "home" ELSE "away"
             actual_result == IF ah = aa THEN "draw"
                              ELSE IF ah < aa THEN "home" ELSE "away"
         IN  IF ph = ah /\ pa = aa THEN Result(5, TRUE, TRUE)
             ELSE IF pred_result = actual_result THEN Result(2, FALSE, TRUE)
             ELSE Result(0, FALSE, FALSE)

\* The four int() conversions run in order inside the try block: the first
\* that fails ends them, with (0, False, False) when its exception is
\* caught and with the exception otherwise.
calculate_points(pred_home, pred_away, actual_home, actual_away) ==
    LET inputs == <<pred_home, pred_away, actual_home, actual_away>>
        failing == {k \in 1 .. 4 : ~IntCoercible(inputs[k])}
        first == CHOOSE k \in failing : \A j \in failing : k <= j
    IN
    IF failing # {}
    THEN IF IntErrorCaught(inputs[first]) THEN Result(0, FALSE, FALSE)
         ELSE Raised("OverflowError")
    ELSE LET ph == pred_home.v
             pa == pred_away.v
             ah == actual_home.v
             aa == actual_away.v
             pred_result == IF ph = pa THEN "draw"
                            ELSE IF ph > pa THEN "home" ELSE "away"
             actual_result == IF ah = aa THEN "draw"
                              ELSE IF ah > aa THEN "home" ELSE "away"
         IN  IF ph = ah /\ pa = aa THEN Result(5, TRUE, TRUE)
             ELSE IF pred_result = actual_result THEN Result(2, FALSE, TRUE)
             ELSE Result(0, FALSE, FALSE)

(***************************************************************************)
(* Values left alone by a specification that does not use a variable.      *)
(***************************************************************************)
NoFile == <<>>
NoCall == [op |-> "none"]
NoClick == [op |-> "none"]

NoPage == [drawn |-> FALSE]
NotStarted == [started |-> FALSE, predictions |-> <<>>, page |-> NoPage]

Idle ==
    /\ fixtures_df = <<>>
    /\ file = NoFile
    /\ sessions = [s \in Sessions |-> NotStarted]
    /\ now = 0
    /\ nsub = 0
    /\ last = NoClick
    /\ acked = {}

(***************************************************************************)
(* SpecScore: calculate_points on every combination of inputs.             *)
(***************************************************************************)
ScoreInts == (0 - 1) .. (MaxGoals + 1)
ScoreInputs == {IntV(n) : n \in ScoreInts} \cup {NaN, StrV, InfV}

InitScore ==
    /\ Idle
    /\ args \in [pred_home : ScoreInputs, pred_away : ScoreInputs,
                 actual_home : ScoreInputs, actual_away : ScoreInputs]
    /\ out = NoCall

CallCalculatePoints ==
    /\ out = NoCall
    /\ out' = [op |-> "calculate_points",
               val |-> calculate_points(args.pred_home, args.pred_away,
                                        args.actual_home, args.actual_away)]
    /\ UNCHANGED <<fixtures_df, file, sessions, now, nsub, last, acked, args>>

NextScore == CallCalculatePoints

SpecScore == InitScore /\ [][NextScore]_vars

AllInts(a) ==
    /\ a.pred_home.t = "int" /\ a.pred_away.t = "int"
    /\ a.actual_home.t = "int" /\ a.actual_away.t = "int"

\* Three-way outcome of a score pair, as the sign of the goal difference.
Sign(h, a) == IF h = a THEN 0 ELSE IF h > a THEN 1 ELSE 0 - 1

\* C1: on integer inputs calculate_points returns (5, exact, correct) when
\* the predicted and actual scores are equal pairwise, otherwise (2, not
\* exact, correct) when prediction and result have the same three-way
\* outcome, otherwise (0, false, false).
C1_PointsRule ==
    (out.op = "calculate_points" /\ AllInts(args)) =>
        LET ph == args.pred_home.v
            pa == args.pred_away.v
            ah == args.actual_home.v
            aa == args.actual_away.v
        IN  /\ (ph = ah /\ pa = aa) =>
                (out.val.points = 5 /\ out.val.exact /\ out.val.correct_res)
            /\ (~(ph = ah /\ pa = aa) /\ Sign(ph, pa) = Sign(ah, aa)) =>
                (out.val.points = 2 /\ ~out.val.exact /\ out.val.correct_res)
            /\ (Sign(ph, pa) # Sign(ah, aa)) =>
                (out.val.points = 0 /\ ~out.val.exact /\ ~out.val.correct_res)

\* The three cases of C1 have all been returned: 2-0 against 3-1 style
\* (same outcome, different score) is the case shown here.
C1_Witness ==
    /\ out.op = "calculate_points" /\ AllInts(args)
    /\ args.pred_home.v # args.actual_home.v
    /\ Sign(args.pred_home.v, args.pred_away.v) = 1
    /\ Sign(args.actual_home.v, args.actual_away.v) = 1
    /\ out.val.points = 2

\* C11: when any of the four inputs of calculate_points is missing or not
\* coercible to an integer, the call returns (0, false, false) and does
\* not raise.
C11_CorruptInputScoresZero ==
    (out.op = "calculate_points" /\ ~AllInts(args)) =>
        /\ ~out.val.raised
        /\ out.val.points = 0 /\ ~out.val.exact /\ ~out.val.correct_res

(***************************************************************************)
(* The fixture sheet.  fixtures_df maps the DataFrame's row index to a row *)
(* with the columns the program reads.                                     *)
(***************************************************************************)
Idx == {0, 1}

Row(round_number, date, home_score, away_score) ==
    [round_number |-> round_number, date |-> date,
     home_score |-> home_score, away_score |-> away_score]

\* The row indices of df[df['Round Number'] == round_num].
get_round_fixtures(df, round_num) ==
    {i \in DOMAIN df : df[i].round_number = round_num}

\* Series.min() over the dates that are not NaT.
MinOf(S) == CHOOSE m \in S : \A x \in S : m <= x

is_round_locked_latest(df, round_num, t) ==
    LET round_fixtures == get_round_fixtures(df, round_num)
        dates == {df[i].date.v : i \in {j \in round_fixtures : notna(df[j].date)}}
    IN  IF round_fixtures = {} \/ dates = {} THEN FALSE
        ELSE \A d \in dates : t >= d

is_round_locked_before(df, round_num, t) ==
    LET round_fixtures == get_round_fixtures(df, round_num)
        dates == {df[i].date.v : i \in {j \in round_fixtures : notna(df[j].date)}}
    IN  IF round_fixtures = {} \/ dates = {} THEN FALSE
        ELSE t <= MinOf(dates)

is_round_locked(df, round_num, t) ==
    LET round_fixtures == get_round_fixtures(df, round_num)
        dates == {df[i].date.v : i \in {j \in round_fixtures : notna(df[j].date)}}
    IN  IF round_fixtures = {} \/ dates = {} THEN FALSE
        ELSE LET first_match_time == MinOf(dates)
             IN  t >= first_match_time

(***************************************************************************)
(* SpecLock: is_round_locked on every small sheet as the clock advances.   *)
(***************************************************************************)
Dates == {NaT} \cup {Ts(n) : n \in 0 .. MaxTime}
LockSheets == [Idx -> {Row(r, d, NaN, NaN) : r \in Rounds, d \in Dates}]
NotAsked == [val |-> "unknown", at |-> 0, was_locked |-> FALSE, since |-> 0]

InitLock ==
    /\ fixtures_df \in LockSheets
    /\ file = NoFile
    /\ sessions = [s \in Sessions |-> NotStarted]
    /\ now = 0
    /\ nsub = 0
    /\ last = NoClick
    /\ acked = {}
    /\ args = <<>>
    /\ out = [op |-> "is_round_locked", res |-> [r \in Rounds |-> NotAsked]]

\* Time passes.
Tick ==
    /\ now < MaxTime
    /\ now' = now + 1
    /\ UNCHANGED <<fixtures_df, file, sessions, nsub, last, acked, args, out>>

CallIsRoundLocked(round_num) ==
    /\ LET locked == is_round_locked(fixtures_df, round_num, now)
           before == out.res[round_num]
       IN  out' = [out EXCEPT !.res[round_num] =
                     [val |-> IF locked THEN "locked" ELSE "open",
                      at |-> now,
                      was_locked |-> before.was_locked \/ locked,
                      since |-> IF before.was_locked THEN before.since
                                ELSE IF locked THEN now ELSE 0]]
    /\ UNCHANGED <<fixtures_df, file, sessions, now, nsub, last, acked, args>>

NextLock ==
    \/ Tick
    \/ \E r \in Rounds : CallIsRoundLocked(r)

SpecLock == InitLock /\ [][NextLock]_vars

\* The kickoff times of a round's fixtures that have one.
Kickoffs(df, r) ==
    {df[i].date.v : i \in {j \in DOMAIN df :
                             df[j].round_number = r /\ df[j].date.t = "ts"}}

\* C9: is_round_locked returns false for a round without fixtures or
\* without any kickoff time, and otherwise returns true exactly when the
\* time of the call is at or after the earliest kickoff of the round,
\* fixtures without a kickoff time being ignored.
C9_LockRule ==
    out.op = "is_round_locked" =>
        \A r \in Rounds :
            out.res[r].val # "unknown" =>
                LET ks == Kickoffs(fixtures_df, r)
                IN  /\ ks = {} => out.res[r].val = "open"
                    /\ ks # {} =>
                        (out.res[r].val = "locked"
                            <=> \E m \in ks : /\ \A k \in ks : m <= k
                                               /\ out.res[r].at >= m)

\* A round with one fixture without kickoff time and one with, asked after
\* the kickoff of the dated fixture.
C9_Witness ==
    /\ out.op = "is_round_locked"
    /\ \E r \in Rounds :
        /\ out.res[r].val = "locked"
        /\ \E i, j \in DOMAIN fixtures_df :
            /\ fixtures_df[i].round_number = r /\ fixtures_df[i].date = NaT
            /\ fixtures_df[j].round_number = r /\ fixtures_df[j].date.t = "ts"

\* C10: with the sheet fixed and time moving forward, a round for which
\* is_round_locked has returned true gets true from every later call.
C10_LockMonotone ==
    [][out.op = "is_round_locked" =>
         \A r \in Rounds :
            out.res[r].val = "locked" => out'.res[r].val = "locked"]_vars

\* A round was reported locked, time moved on and it was asked again.
C10_Witness ==
    /\ out.op = "is_round_locked"
    /\ \E r \in Rounds :
        /\ out.res[r].was_locked
        /\ out.res[r].since < out.res[r].at
        /\ out.res[r].val = "locked"

(***************************************************************************)
(* The prediction store.  In memory: player -> round number -> row index   *)
(* -> {home, away}.  In PREDICTIONS_FILE the round numbers and row indices *)
(* are JSON object keys, decimal strings, modelled as digit sequences.     *)
(* A missing file and a file holding {} are both the empty function.       *)
(***************************************************************************)
RECURSIVE str(_)
str(n) == IF n < 10 THEN <<n>> ELSE Append(str(n \div 10), n % 10)

RECURSIVE int(_)
int(s) == IF Len(s) = 1 THEN s[1]
          ELSE 10 * int(SubSeq(s, 1, Len(s) - 1)) + s[Len(s)]

\* The key of dictionary d that int() maps to n (save_predictions writes
\* one such key).
KeyOf(d, n) == CHOOSE k \in DOMAIN d : int(k) = n

load_predictions_data(f) ==
    [player \in DOMAIN f |->
        [round_num \in {int(k) : k \in DOMAIN f[player]} |->
            LET preds == f[player][KeyOf(f[player], round_num)]
            IN  [i \in {int(k) : k \in DOMAIN preds} |-> preds[KeyOf(preds, i)]]]]

save_predictions_last_round(predictions) ==
    [player \in DOMAIN predictions |->
        [rk \in {str(r) : r \in {q \in DOMAIN predictions[player] :
                                   \A k \in DOMAIN predictions[player] : k <= q}} |->
            LET preds == predictions[player][int(rk)]
            IN  [ik \in {str(i) : i \in DOMAIN preds} |-> preds[int(ik)]]]]

save_predictions(predictions) ==
    [player \in DOMAIN predictions |->
        [rk \in {str(r) : r \in DOMAIN predictions[player]} |->
            LET preds == predictions[player][int(rk)]
            IN  [ik \in {str(i) : i \in DOMAIN preds} |-> preds[int(ik)]]]]

Pred(home, away) == [home |-> home, away |-> away]

(***************************************************************************)
(* Aggregation.                                                            *)
(***************************************************************************)
RECURSIVE Sum(_, _)
Sum(f, S) == IF S = {} THEN 0
             ELSE LET x == CHOOSE y \in S : TRUE
                  IN  f[x] + Sum(f, S \ {x})

\* round_fixtures['Home Score'].notna().any()
RoundHasResults(df, round_num) ==
    \E i \in get_round_fixtures(df, round_num) : notna(df[i].home_score)

FixturePlayed_whole_sheet(df, round_num, fixture_idx) ==
    /\ fixture_idx \in DOMAIN df
    /\ notna(df[fixture_idx].home_score)

\* not fixture.empty and pd.notna(fixture.iloc[0]['Home Score'])
FixturePlayed(df, round_num, fixture_idx) ==
    /\ fixture_idx \in get_round_fixtures(df, round_num)
    /\ notna(df[fixture_idx].home_score)

\* The predictions of one player that reach the int() conversions of the
\* actual scores.
Scored(df, player_predictions) ==
    {<<r, i>> \in UNION {{<<q, j>> : j \in DOMAIN player_predictions[q]} :
                           q \in DOMAIN player_predictions} :
        RoundHasResults(df, r) /\ FixturePlayed(df, r, i)}

\* int(fixture.iloc[0]['Home Score']) or int(fixture.iloc[0]['Away Score'])
\* raises ValueError on NaN and on a non-numeric string; neither function
\* catches it.
ScoreConversionRaises(df, player_predictions) ==
    \E ri \in Scored(df, player_predictions) :
        ~(IntCoercible(df[ri[2]].home_score) /\ IntCoercible(df[ri[2]].away_score))

\* calculate_points raises for one of the player's scored predictions;
\* neither caller catches it.
PointsRaise(df, player_predictions) ==
    \E ri \in Scored(df, player_predictions) :
        calculate_points(player_predictions[ri[1]][ri[2]].home,
                         player_predictions[ri[1]][ri[2]].away,
                         df[ri[2]].home_score, df[ri[2]].away_score).raised

FixturePoints(df, fixture_idx, pred) ==
    calculate_points(pred.home, pred.away,
                     df[fixture_idx].home_score, df[fixture_idx].away_score)

\* Points of one round of one player: 0 when the round has no result yet.
RoundPoints(df, round_num, predictions) ==
    IF RoundHasResults(df, round_num)
    THEN Sum([i \in DOMAIN predictions |->
                IF FixturePlayed(df, round_num, i)
                THEN FixturePoints(df, i, predictions[i]).points ELSE 0],
             DOMAIN predictions)
    ELSE 0

RoundCount(df, round_num, predictions, flag) ==
    IF RoundHasResults(df, round_num)
    THEN Cardinality({i \in DOMAIN predictions :
                        /\ FixturePlayed(df, round_num, i)
                        /\ FixturePoints(df, i, predictions[i])[flag]})
    ELSE 0

calculate_player_points_overwrite(player_name, df, all_predictions) ==
    IF player_name \notin DOMAIN all_predictions
    THEN [raised |-> FALSE, total_points |-> 0, round_breakdown |-> <<>>]
    ELSE LET player_predictions == all_predictions[player_name]
         IN  IF \/ ScoreConversionRaises(df, player_predictions)
                \/ PointsRaise(df, player_predictions)
             THEN [raised |-> TRUE]
             ELSE LET round_breakdown ==
                          [r \in {q \in DOMAIN player_predictions :
                                    RoundHasResults(df, q)} |->
                              RoundPoints(df, r, player_predictions[r])]
                      rounds == DOMAIN round_breakdown
                  IN  [raised |-> FALSE,
                       total_points |->
                           IF rounds = {} THEN 0
                           ELSE round_breakdown[
                                    CHOOSE r \in rounds : \A q \in rounds : q <= r],
                       round_breakdown |-> round_breakdown]

calculate_player_points(player_name, df, all_predictions) ==
    IF player_name \notin DOMAIN all_predictions
    THEN [raised |-> FALSE, total_points |-> 0, round_breakdown |-> <<>>]
    ELSE LET player_predictions == all_predictions[player_name]
         IN  IF \/ ScoreConversionRaises(df, player_predictions)
                \/ PointsRaise(df, player_predictions)
             THEN [raised |-> TRUE]
             ELSE LET round_breakdown ==
                          [r \in {q \in DOMAIN player_predictions :
                                    RoundHasResults(df, q)} |->
                              RoundPoints(df, r, player_predictions[r])]
                  IN  [raised |-> FALSE,
                       total_points |-> Sum(round_breakdown, DOMAIN round_breakdown),
                       round_breakdown |-> round_breakdown]

LeaderboardEntry(df, player_rounds_predictions) ==
    LET rounds == DOMAIN player_rounds_predictions
    IN  [exact_scores |->
            Sum([r \in rounds |->
                   RoundCount(df, r, player_rounds_predictions[r], "exact")], rounds),
         correct_results |->
            Sum([r \in rounds |->
                   RoundCount(df, r, player_rounds_predictions[r], "correct_res")], rounds),
         total_points |->
            Sum([r \in rounds |->
                   RoundPoints(df, r, player_rounds_predictions[r])], rounds)]

update_leaderboard(df, f) ==
    LET all_predictions == load_predictions_data(f)
    IN  IF \E player \in DOMAIN all_predictions :
              \/ ScoreConversionRaises(df, all_predictions[player])
              \/ PointsRaise(df, all_predictions[player])
        THEN [raised |-> TRUE]
        ELSE [raised |-> FALSE,
              leaderboard |-> [player \in DOMAIN all_predictions |->
                                 LeaderboardEntry(df, all_predictions[player])]]

(***************************************************************************)
(* SpecBoard: the Leaderboard tab on every small sheet and store.          *)
(***************************************************************************)
PutPlayer(st, p) == IF p \in DOMAIN st THEN st ELSE (p :> <<>>) @@ st

PutRound(st, p, r) ==
    LET s1 == PutPlayer(st, p)
    IN  IF r \in DOMAIN s1[p] THEN s1 ELSE [s1 EXCEPT ![p] = (r :> <<>>) @@ @]

PutPred(st, p, r, i, pv) ==
    LET s2 == PutRound(st, p, r)
    IN  [s2 EXCEPT ![p][r] = (i :> pv) @@ @]

\* Row indices a stored prediction may carry: those of the sheet and one
\* that the sheet does not have.
PredIdx == Idx \cup {Cardinality(Idx)}
Goals == {IntV(n) : n \in 0 .. MaxGoals}
\* The predictions of the stores of SpecBoard: a draw and a home win.  The
\* sheet's scores range over all of Goals.
BoardPreds == {Pred(IntV(MaxGoals), IntV(MaxGoals)), Pred(IntV(MaxGoals), IntV(0))}

Grow(S) ==
    S \cup {PutPlayer(st, p) : st \in S, p \in Players}
      \cup {PutRound(st, p, r) : st \in S, p \in Players, r \in Rounds}
      \cup UNION {{PutPred(st, p, r, i, pv) : st \in S, pv \in BoardPreds} :
                    p \in Players, r \in Rounds, i \in PredIdx}

\* The stores with at most two entries (players, rounds, predictions).
BoardStores == Grow(Grow({<<>>}))

ScoreCells == {NaN} \cup Goals
\* The sheets of SpecBoard; the first row is in round 1 (the other sheets
\* are these with the rounds or the rows renamed).
BoardSheets ==
    {df \in [Idx -> {Row(r, NaT, h, a) :
                       r \in Rounds, h \in ScoreCells, a \in ScoreCells}] :
        df[0].round_number = 1}

NotCalled == [called |-> FALSE]

InitBoard ==
    /\ fixtures_df \in BoardSheets
    /\ file \in {save_predictions(st) : st \in BoardStores}
    /\ sessions = [s \in Sessions |-> NotStarted]
    /\ now = 0
    /\ nsub = 0
    /\ last = NoClick
    /\ acked = {}
    /\ args = <<>>
    /\ out = NoCall

\* One run of the script with the Leaderboard tab: the leaderboard is
\* built from the file when the file holds more than "{}", and with the
\* breakdown checkbox ticked the selected player's points are computed
\* from a second load of the file.  An exception ends the run.
LeaderboardTab(show_breakdown, selected_player) ==
    /\ out = NoCall
    /\ file # <<>>
    /\ IF show_breakdown
       THEN selected_player \in DOMAIN load_predictions_data(file)
       ELSE selected_player = "none"
    /\ LET leaderboard == update_leaderboard(fixtures_df, file)
       IN  out' = [op |-> "leaderboard",
                   leaderboard |-> leaderboard,
                   selected_player |-> selected_player,
                   player_points |->
                       IF leaderboard.raised \/ ~show_breakdown THEN NotCalled
                       ELSE [called |-> TRUE,
                             ret |-> calculate_player_points(
                                        selected_player, fixtures_df,
                                        load_predictions_data(file))]]
    /\ UNCHANGED <<fixtures_df, file, sessions, now, nsub, last, acked, args>>

NextBoard ==
    \E show_breakdown \in BOOLEAN, selected_player \in Players \cup {"none"} :
        LeaderboardTab(show_breakdown, selected_player)

SpecBoard == InitBoard /\ [][NextBoard]_vars

\* The predictions of a player whose fixture is in the sheet under the
\* predicted round and has both actual scores recorded.
Known(df, player_predictions) ==
    {ri \in UNION {{<<r, i>> : i \in DOMAIN player_predictions[r]} :
                     r \in DOMAIN player_predictions} :
        /\ ri[2] \in DOMAIN df
        /\ df[ri[2]].round_number = ri[1]
        /\ df[ri[2]].home_score # NaN
        /\ df[ri[2]].away_score # NaN}

PointsOf(df, player_predictions, ri) ==
    calculate_points(player_predictions[ri[1]][ri[2]].home,
                     player_predictions[ri[1]][ri[2]].away,
                     df[ri[2]].home_score, df[ri[2]].away_score)

\* The entry the claims describe: sums and counts over Known alone.
ExpectedEntry(df, player_predictions) ==
    LET K == Known(df, player_predictions)
    IN  [exact_scores |->
            Cardinality({ri \in K : PointsOf(df, player_predictions, ri).exact}),
         correct_results |->
            Cardinality({ri \in K : PointsOf(df, player_predictions, ri).correct_res}),
         total_points |->
            Sum([ri \in K |-> PointsOf(df, player_predictions, ri).points], K)]

BoardAsExpected ==
    LET all_predictions == load_predictions_data(file)
    IN  /\ DOMAIN out.leaderboard.leaderboard = DOMAIN all_predictions
        /\ \A player \in DOMAIN all_predictions :
              out.leaderboard.leaderboard[player] =
                  ExpectedEntry(fixtures_df, all_predictions[player])

\* C2: in the leaderboard update_leaderboard returns, every player of the
\* store has Total Points equal to the sum of calculate_points over those
\* of the player's predictions whose fixture is in the sheet for that round
\* with a recorded actual score, and Exact Scores and Correct Results count
\* the same predictions only; other predictions add nothing.
C2_BoardSumsKnown ==
    (out.op = "leaderboard" /\ ~out.leaderboard.raised) => BoardAsExpected

\* A player with one prediction that scores and one that is skipped.
C2_Witness ==
    /\ out.op = "leaderboard" /\ ~out.leaderboard.raised
    /\ \E player \in DOMAIN out.leaderboard.leaderboard :
        LET preds == load_predictions_data(file)[player]
            all == UNION {{<<r, i>> : i \in DOMAIN preds[r]} : r \in DOMAIN preds}
        IN  /\ out.leaderboard.leaderboard[player].total_points > 0
            /\ Cardinality(all) = 2
            /\ Cardinality(Known(fixtures_df, preds)) = 1

\* C7: a fixture with the home score, the away score or both missing is
\* treated as not yet played: update_leaderboard and
\* calculate_player_points skip it without raising and the leaderboard is
\* computed from the other fixtures for all players.
C7_MissingScoreSkipped ==
    out.op = "leaderboard" =>
        /\ ~out.leaderboard.raised
        /\ BoardAsExpected
        /\ out.player_points.called => ~out.player_points.ret.raised

\* C8: the Total Points of update_leaderboard for a player equal the total
\* calculate_player_points returns for that player, and both equal the sum
\* of the values of the player's per-round breakdown.
C8_TotalsAgree ==
    (out.op = "leaderboard" /\ out.player_points.called) =>
        LET ret == out.player_points.ret
            entry == out.leaderboard.leaderboard[out.selected_player]
        IN  /\ ~ret.raised
            /\ entry.total_points = ret.total_points
            /\ ret.total_points =
                 Sum(ret.round_breakdown, DOMAIN ret.round_breakdown)

\* A player with points in two rounds.
C8_Witness ==
    /\ out.op = "leaderboard" /\ out.player_points.called
    /\ \E r1, r2 \in DOMAIN out.player_points.ret.round_breakdown :
        /\ r1 # r2
        /\ out.player_points.ret.round_breakdown[r1] > 0
        /\ out.player_points.ret.round_breakdown[r2] > 0

(***************************************************************************)
(* Spec: browser sessions on the Make Predictions tab.                     *)
(*                                                                         *)
(* Every interaction reruns the script top to bottom.  The first run of a  *)
(* session loads the file into st.session_state.predictions; later runs    *)
(* keep that copy.  Each run evaluates is_round_locked at its own time and *)
(* draws the Submit button disabled when the round is locked.  The browser *)
(* sends a click only for a button drawn enabled by the run before; the    *)
(* run the click starts gets True from st.button, whose disabled argument  *)
(* only decides how that run draws the button.                             *)
(***************************************************************************)
\* The sheets of Spec: round 1 kicks off at time 1; the second fixture is
\* an undated one of round 1, or is round 2 and kicks off last.
SessionSheets ==
    {df \in [Idx -> {Row(r, d, NaN, NaN) : r \in Rounds, d \in Dates}] :
        /\ df[0] = Row(1, Ts(1), NaN, NaN)
        /\ df[1] \in {Row(1, NaT, NaN, NaN), Row(2, Ts(MaxTime), NaN, NaN)}}

\* The score pairs typed into the form in Spec.
FormVals == {Pred(IntV(0), IntV(0)), Pred(IntV(MaxGoals), IntV(0))}

\* The file at start: none, or one written for an earlier sheet, with a
\* prediction of round 1 under a row index the sheet does not have.
SessionFiles ==
    {save_predictions(<<>>),
     save_predictions(PutPred(<<>>, "Shezza", 1, Cardinality(Idx),
                              Pred(IntV(0), IntV(0))))}

Init ==
    /\ fixtures_df \in SessionSheets
    /\ file \in SessionFiles
    /\ sessions = [s \in Sessions |-> NotStarted]
    /\ now = 0
    /\ nsub = 0
    /\ last = NoClick
    /\ acked = {}
    /\ args = <<>>
    /\ out = NoCall

available_rounds(df) == {df[i].round_number : i \in DOMAIN df}

\* if 'predictions' not in st.session_state: ... = load_predictions_data()
SessionPredictions(s) ==
    IF sessions[s].started THEN sessions[s].predictions
    ELSE load_predictions_data(file)

\* A run of the script without a Submit click: the session opens the page
\* or changes a selection.
OpenPage(s, player_name, round_number) ==
    /\ round_number \in available_rounds(fixtures_df)
    /\ LET locked == is_round_locked(fixtures_df, round_number, now)
       IN  sessions' = [sessions EXCEPT ![s] =
                          [started |-> TRUE,
                           predictions |-> SessionPredictions(s),
                           page |-> [drawn |-> TRUE, player_name |-> player_name,
                                     round_number |-> round_number,
                                     disabled |-> locked]]]
    /\ last' = NoClick
    /\ UNCHANGED <<fixtures_df, file, now, nsub, acked, args, out>>

SubmitPredictions_merge(predictions, player_name, round_number, P) ==
    LET with_player == IF player_name \in DOMAIN predictions THEN predictions
                       ELSE (player_name :> <<>>) @@ predictions
        old == IF round_number \in DOMAIN with_player[player_name]
               THEN with_player[player_name][round_number] ELSE <<>>
    IN  [with_player EXCEPT ![player_name] = (round_number :> (P @@ old)) @@ @]

\* The Submit handler's update of st.session_state.predictions.
SubmitPredictions(predictions, player_name, round_number, P) ==
    LET with_player == IF player_name \in DOMAIN predictions THEN predictions
                       ELSE (player_name :> <<>>) @@ predictions
    IN  [with_player EXCEPT ![player_name] = (round_number :> P) @@ @]

\* The run started by a click on Submit, with P the values of the score
\* inputs of the round's fixtures.
ClickSubmit(s, P) ==
    /\ nsub < MaxSubmits
    /\ sessions[s].started
    /\ sessions[s].page.drawn
    /\ ~sessions[s].page.disabled
    /\ LET player_name == sessions[s].page.player_name
           round_number == sessions[s].page.round_number
           locked == is_round_locked(fixtures_df, round_number, now)
           before == sessions[s].predictions
           after == SubmitPredictions(before, player_name, round_number, P)
           old == IF player_name \in DOMAIN before
                     /\ round_number \in DOMAIN before[player_name]
                  THEN DOMAIN before[player_name][round_number] ELSE {}
       IN  /\ P \in [get_round_fixtures(fixtures_df, round_number) -> FormVals]
           /\ sessions' = [sessions EXCEPT ![s].predictions = after,
                                           ![s].page.disabled = locked]
           /\ file' = save_predictions(after)
           /\ last' = [op |-> "submit", session |-> s,
                       player_name |-> player_name,
                       round_number |-> round_number,
                       predictions |-> P,
                       warning |-> locked, success |-> TRUE,
                       dropped |-> old \ DOMAIN P]
           /\ acked' = acked \cup {<<player_name, round_number>>}
    /\ nsub' = nsub + 1
    /\ UNCHANGED <<fixtures_df, now, args, out>>

Next ==
    \/ Tick
    \/ \E s \in Sessions, player_name \in Players, round_number \in Rounds :
          OpenPage(s, player_name, round_number)
    \/ \E s \in Sessions :
          \E P \in UNION {[D -> FormVals] : D \in SUBSET Idx} : ClickSubmit(s, P)

Spec == Init /\ [][Next]_vars

\* What the file holds for a player and a round.
StoredPreds(f, player_name, round_number) ==
    IF player_name \in DOMAIN f /\ str(round_number) \in DOMAIN f[player_name]
    THEN [stored |-> TRUE, predictions |-> f[player_name][str(round_number)]]
    ELSE [stored |-> FALSE, predictions |-> <<>>]

\* C3: a Submit handled while the round is locked is not applied: the
\* session's predictions and the file stay as they were, and the run shows
\* the round-locked warning and no success.
C3_LockedSubmitRejected ==
    [][(nsub' = nsub + 1
        /\ is_round_locked(fixtures_df, last'.round_number, now)) =>
           /\ file' = file
           /\ sessions'[last'.session].predictions
                = sessions[last'.session].predictions
           /\ last'.warning
           /\ ~last'.success]_vars

\* C4: once a round is locked, no later operation changes what the file
\* holds for that round, for any player.
C4_LockedRoundFrozen ==
    [][\A r \in Rounds, p \in Players :
          is_round_locked(fixtures_df, r, now) =>
              StoredPreds(file', p, r) = StoredPreds(file, p, r)]_vars

\* C5: every Submit rewrites the whole file from the submitting session's
\* own copy of the store, loaded once when the session started, so what
\* other sessions have saved since is lost without any error (the state
\* C5_Witness).
C5_SubmitRewritesWholeFile ==
    last.op = "submit" =>
        /\ last.success
        /\ load_predictions_data(file) = sessions[last.session].predictions

\* A submission of one player was acknowledged and, after the acknowledged
\* submission of another player, the file no longer holds it.
C5_Witness ==
    /\ last.op = "submit" /\ last.success
    /\ \E a \in acked :
        /\ a[1] # last.player_name
        /\ ~StoredPreds(file, a[1], a[2]).stored

\* C6: a Submit replaces the player's predictions of the round by exactly
\* the submitted set, fixtures predicted before and not in the set being
\* dropped, and leaves the player's other rounds and the other players in
\* the session's store as they were.
C6_SubmitReplacesRound ==
    [][nsub' = nsub + 1 =>
         LET s == last'.session
             p == last'.player_name
             r == last'.round_number
             before == sessions[s].predictions
             after == sessions'[s].predictions
         IN  /\ DOMAIN after = DOMAIN before \cup {p}
             /\ r \in DOMAIN after[p]
             /\ after[p][r] = last'.predictions
             /\ \A q \in DOMAIN before : q # p => after[q] = before[q]
             /\ DOMAIN after[p] =
                  (IF p \in DOMAIN before THEN DOMAIN before[p] ELSE {}) \cup {r}
             /\ \A k \in DOMAIN after[p] : k # r => after[p][k] = before[p][k]]_vars

\* A Submit dropped a fixture predicted before, in a store that holds
\* another round of the player or another player.
C6_Witness ==
    /\ last.op = "submit"
    /\ last.dropped # {}
    /\ DOMAIN sessions[last.session].predictions[last.player_name][last.round_number]
         = DOMAIN last.predictions

====
